---- MODULE Spec2Model ----
(***************************************************************************)
(* Model of control/nltools.py: the static nonlinearities (saturation,     *)
(* relay with hysteresis, backlash), describing_function and               *)
(* describing_function_plot with _find_intersection.                       *)
(*                                                                         *)
(* Real numbers are fixed-point integers in half units: the integer v      *)
(* stands for the real v/2, so that b/2 of the backlash is exact for the   *)
(* whole-number widths used here.                                          *)
(***************************************************************************)
EXTENDS Integers, Sequences, FiniteSets, TLC

VARIABLES
    fcn,          \* the nonlinearity object: its parameters and its state
    warned,       \* whether the constructor called warn()
    fresh,        \* no call of fcn has been made since its construction
    last,         \* the latest direct call of fcn: input, output, state before
    pc,           \* position inside describing_function
    amp,          \* describing_function: the amplitudes, np.atleast_1d(amp)
    amp_scalar,   \* describing_function: amp was given as a scalar
    zero_check,   \* describing_function argument
    try_method,   \* describing_function argument
    idx,          \* index of the amplitude of the main loop (1-based)
    k,            \* index of the sample within a pass (0-based)
    fcn_eval,     \* outputs of the current amplitude's pass
    df,           \* the list df of results so far
    calls,        \* every call made to fcn by the current describing_function
    entry,        \* the state of fcn when describing_function was entered
    outcome,      \* how describing_function ended
    consulted,    \* the amplitudes handed to fcn.describing_function by the call
    L1a, L1b,     \* _find_intersection: the first segment's end points
    L2a, L2b,     \* _find_intersection: the second segment's end points
    ret,          \* _find_intersection: what the call gave
    N_vals,       \* describing_function_plot: the points of the -1/N curve
    H_vals,       \* describing_function_plot: the points of the plant curve
    a_list,       \* describing_function_plot: the amplitudes a
    H_omega,      \* describing_function_plot: the plant curve's frequencies
    refine,       \* describing_function_plot argument
    seg_i,        \* the loop's i (1-based): segment of the -1/N curve
    seg_j,        \* the loop's j (1-based): segment of the plant curve
    intersections,\* the list the function returns
    warnings,     \* number of warn() calls of describing_function_plot
    trace,        \* per appended entry: its segment pair, guess and minimizer run
    plot_pc       \* position inside describing_function_plot

nlvars == <<fcn, warned, fresh, last, pc, amp, amp_scalar, zero_check, try_method,
            idx, k, fcn_eval, df, calls, entry, outcome, consulted>>
findvars == <<L1a, L1b, L2a, L2b, ret>>
plotvars == <<N_vals, H_vals, a_list, H_omega, refine, seg_i, seg_j,
              intersections, warnings, trace, plot_pc>>
vars == <<nlvars, findvars, plotvars>>

(***************************************************************************)
(* Bounds of the model.                                                    *)
(***************************************************************************)
\* num_points of describing_function (the code's default is 100)
NumPoints == 5
\* longest list of amplitudes handed to describing_function
MaxAmps == 2
\* longest array handed to a nonlinearity's __call__
MaxArray == 2
\* largest coordinate of a segment end point handed to _find_intersection
GridMax == 2

\* inputs of direct calls, amplitudes, constructor arguments (half units)
Inputs == {-4, -1, 0, 1, 4}
AmpValues == {-2, 0, 4}
SatBounds == {-4, -2, 2, 4}
RelayB == {2, 4}
RelayC == {0, 2}
BacklashB == {0, 2, 4}
Offsets == {0, 1}

Min(a, b) == IF a <= b THEN a ELSE b
Max(a, b) == IF a >= b THEN a ELSE b
Abs(a) == IF a < 0 THEN -a ELSE a

RECURSIVE SeqMin(_)
SeqMin(s) == IF Len(s) = 1 THEN s[1] ELSE Min(s[1], SeqMin(Tail(s)))

\* sequences over S of length lo..hi
SeqsOf(S, lo, hi) == UNION {[1..n -> S] : n \in lo..hi}

\* n/d rounded to the nearest integer (d > 0)
RoundDiv(n, d) == (2 * n + d) \div (2 * d)

(***************************************************************************)
(* The sampled sinusoid: theta = np.linspace(0, 2*pi, num_points).  Angles *)
(* are counted in units of pi/(2m), m = num_points - 1, so theta_k is 4k   *)
(* units and pi/2 is m units.  sin is Bhaskara's rational approximation    *)
(* 16p/(5M^2 - 4p), p = u(M - u), M = 2m, exact at 0, pi/2, pi.            *)
(***************************************************************************)
SinParts(u) ==
    LET M == 2 * (NumPoints - 1)
        v == u % (2 * M)
        w == IF v <= M THEN v ELSE v - M
        p == w * (M - w)
    IN  [num |-> IF v <= M THEN 16 * p ELSE -16 * p, den |-> 5 * M * M - 4 * p]

\* a * sin(theta_k), on the fixed-point grid
AmpSin(a, kk) == LET s == SinParts(4 * kk) IN RoundDiv(a * s.num, s.den)
\* sin_theta[k] and cos_theta[k] in half units
SinTheta(kk) == AmpSin(2, kk)
CosTheta(kk) == LET s == SinParts(4 * kk + (NumPoints - 1)) IN RoundDiv(2 * s.num, s.den)

(***************************************************************************)
(* Complex numbers are records of two integers; the parameters s1, s2 of   *)
(* an intersection, and what is interpolated with them, are exact          *)
(* rationals <<n, d>> in lowest terms with d > 0.                          *)
(***************************************************************************)
Cplx(re, im) == [real |-> re, imag |-> im]
Origin == Cplx(0, 0)
CSub(u, v) == Cplx(u.real - v.real, u.imag - v.imag)

RECURSIVE Gcd(_, _)
Gcd(m, n) == IF n = 0 THEN m ELSE Gcd(n, m % n)

Rat(n, d) ==
    LET g == Gcd(Abs(n), Abs(d))
        sg == IF d < 0 THEN -1 ELSE 1
    IN  <<(sg * n) \div g, (sg * d) \div g>>
RInt(n) == <<n, 1>>
RAdd(p, q) == Rat(p[1] * q[2] + q[1] * p[2], p[2] * q[2])
RSub(p, q) == Rat(p[1] * q[2] - q[1] * p[2], p[2] * q[2])
RMul(p, q) == Rat(p[1] * q[1], p[2] * q[2])
RLess(p, q) == p[1] * q[2] < q[1] * p[2]

(***************************************************************************)
(* The nonlinearities.  An object is a record: its kind, its parameters    *)
(* and, for the stateful ones, its state.  A call yields the output y and  *)
(* the object after the call.                                              *)
(***************************************************************************)

\* a plain user callable without a describing_function method: x + off
callable_init(off) == [kind |-> "callable", off |-> off]
callable_call(f, x) == [y |-> x + f.off, f |-> f]

\* a user subclass of NonlinearFunction that defines __call__ (x + off) and
\* inherits describing_function from the base class
subclass_init(off) == [kind |-> "NonlinearFunction", off |-> off]
subclass_call(f, x) == [y |-> x + f.off, f |-> f]

\* saturation_nonlinearity.__init__(ub, lb); lb is <<>> for None
saturation_init(ub, lbopt) ==
    LET lb1 == IF lbopt = <<>> THEN -Abs(ub) ELSE lbopt[1]
        ub1 == IF lbopt = <<>> THEN Abs(ub) ELSE ub
    IN  [obj |-> [kind |-> "saturation", lb |-> lb1, ub |-> ub1],
         warned |-> (lb1 > 0 \/ ub1 < 0 \/ lb1 + ub1 # 0)]

\* saturation_nonlinearity.__call__: np.maximum(lb, np.minimum(x, ub))
saturation_call(f, x) == [y |-> Max(f.lb, Min(x, f.ub)), f |-> f]

\* relay_hysteresis_nonlinearity.__init__(b, c)
relay_hysteresis_init(b, c) ==
    [kind |-> "relay_hysteresis", b |-> b, c |-> c, branch |-> -1]

\* a relay that switches already at the level itself
relay_hysteresis_call_ge(f, x) ==
    IF x >= f.c THEN [y |-> f.b, f |-> [f EXCEPT !.branch = 1]]
    ELSE IF x <= -f.c THEN [y |-> -f.b, f |-> [f EXCEPT !.branch = -1]]
    ELSE IF f.branch = -1 THEN [y |-> -f.b, f |-> f]
    ELSE [y |-> f.b, f |-> f]

\* relay_hysteresis_nonlinearity.__call__
relay_hysteresis_call(f, x) ==
    IF x > f.c THEN [y |-> f.b, f |-> [f EXCEPT !.branch = 1]]
    ELSE IF x < -f.c THEN [y |-> -f.b, f |-> [f EXCEPT !.branch = -1]]
    ELSE IF f.branch = -1 THEN [y |-> -f.b, f |-> f]
    ELSE [y |-> f.b, f |-> f]

\* backlash_nonlinearity.__init__(b)
backlash_init(b) == [kind |-> "backlash", b |-> b, center |-> 0]

\* a backlash whose center jumps to the input when pushed up
backlash_step_jump(center, b, x) ==
    IF x - center > b \div 2 THEN x
    ELSE IF x - center < -(b \div 2) THEN x + b \div 2
    ELSE center

\* a backlash that compares with the whole width b instead of b/2
backlash_step_wide(center, b, x) ==
    IF x - center > b THEN x - b \div 2
    ELSE IF x - center < -b THEN x + b \div 2
    ELSE center

\* one turn of the loop of backlash_nonlinearity.__call__: the new center
backlash_step(center, b, x) ==
    IF x - center > b \div 2 THEN x - b \div 2
    ELSE IF x - center < -(b \div 2) THEN x + b \div 2
    ELSE center

\* backlash_nonlinearity.__call__ on the elements xs, in order
RECURSIVE backlash_call(_, _)
backlash_call(f, xs) ==
    IF xs = <<>> THEN [y |-> <<>>, f |-> f]
    ELSE LET c1 == backlash_step(f.center, f.b, Head(xs))
             rest == backlash_call([f EXCEPT !.center = c1], Tail(xs))
         IN  [y |-> <<c1>> \o rest.y, f |-> rest.f]

\* fcn(x) for a scalar x
Call(f, x) ==
    CASE f.kind = "callable" -> callable_call(f, x)
      [] f.kind = "NonlinearFunction" -> subclass_call(f, x)
      [] f.kind = "saturation" -> saturation_call(f, x)
      [] f.kind = "relay_hysteresis" -> relay_hysteresis_call(f, x)
      [] f.kind = "backlash" ->
            LET r == backlash_call(f, <<x>>) IN [y |-> r.y[1], f |-> r.f]

\* fcn(xs) for an array xs (saturation and the callable work elementwise)
CallArray(f, xs) ==
    IF f.kind = "backlash" THEN backlash_call(f, xs)
    ELSE [y |-> [i \in 1..Len(xs) |-> Call(f, xs[i]).y], f |-> f]

(***************************************************************************)
(* Values of a describing function.  The closed forms are trigonometric;   *)
(* where the code returns a literal (1., 0, nan) the value is that         *)
(* literal, elsewhere it is the closed form as a term of the amplitude.    *)
(* A numeric value keeps the two projections (in quarter units) and the    *)
(* amplitude of its scale dtheta/(pi*a).                                   *)
(***************************************************************************)
DFConst(v) == [form |-> "const", val |-> v]
DFNan == [form |-> "nan"]
DFClosed(kind, A) == [form |-> "closed", of |-> kind, A |-> A]
DFNumeric(a, re, im) == [form |-> "numeric", a |-> a, re |-> re, im |-> im]

Val(v) == [raised |-> "", v |-> v]
Raise(e) == [raised |-> e, v |-> DFNan]

\* saturation_nonlinearity.describing_function(A); math.asin raises
\* ValueError outside [-1, 1] (A is a numpy scalar: ub/0 is inf, no error)
saturation_describing_function(f, A) ==
    IF f.lb <= A /\ A <= f.ub THEN Val(DFConst(1))
    ELSE IF A = 0 \/ Abs(f.ub) > Abs(A) \/ Abs(f.lb) > Abs(A)
         THEN Raise("ValueError: math domain error")
         ELSE Val(DFClosed("saturation", A))

\* relay_hysteresis_nonlinearity.describing_function(a), for c >= 0; at
\* a = 0 (then c = 0) the numpy scalar division 0/0 is nan, not an error
relay_hysteresis_describing_function(f, a) ==
    IF a < f.c THEN Val(DFNan)
    ELSE IF a = 0 THEN Val(DFNan)
    ELSE Val(DFClosed("relay_hysteresis", a))

\* NonlinearFunction.describing_function(amp)
base_describing_function(f, a) ==
    Raise("NotImplementedError: describing function not implemented for this function")

\* backlash_nonlinearity.describing_function(A)
backlash_describing_function(f, A) ==
    IF 2 * A <= f.b THEN Val(DFConst(0))
    ELSE Val(DFClosed("backlash", A))

\* hasattr(fcn, 'describing_function')
HasMethod(f) == f.kind # "callable"

\* fcn.describing_function(a)
Method(f, a) ==
    CASE f.kind = "saturation" -> saturation_describing_function(f, a)
      [] f.kind = "relay_hysteresis" -> relay_hysteresis_describing_function(f, a)
      [] f.kind = "backlash" -> backlash_describing_function(f, a)
      [] f.kind = "NonlinearFunction" -> base_describing_function(f, a)

(***************************************************************************)
(* describing_function(fcn, amp, num_points, zero_check, try_method)       *)
(***************************************************************************)

\* a loop that puts each value in front of the earlier ones
RECURSIVE AnalyticLoop_reversed(_, _, _, _)
AnalyticLoop_reversed(f, amps, acc, asked) ==
    IF amps = <<>> THEN [raised |-> "", df |-> acc, asked |-> asked]
    ELSE LET r == Method(f, Head(amps))
             seen == Append(asked, Head(amps))
         IN  IF r.raised # "" THEN [raised |-> r.raised, df |-> acc, asked |-> seen]
             ELSE AnalyticLoop_reversed(f, Tail(amps), <<r.v>> \o acc, seen)

\* the analytic path: df.append(fcn.describing_function(a)) for a in amp; an
\* exception of the method ends the loop and leaves describing_function
\* (asked lists the amplitudes the method was called with)
RECURSIVE AnalyticLoop(_, _, _, _)
AnalyticLoop(f, amps, acc, asked) ==
    IF amps = <<>> THEN [raised |-> "", df |-> acc, asked |-> asked]
    ELSE LET r == Method(f, Head(amps))
             seen == Append(asked, Head(amps))
         IN  IF r.raised # "" THEN [raised |-> r.raised, df |-> acc, asked |-> seen]
             ELSE AnalyticLoop(f, Tail(amps), Append(acc, r.v), seen)

\* a settling pass over the first amplitude instead of the smallest
SettleAmp_first(amps) == amps[1]

\* np.atleast_1d(amp).min(): the amplitude of the settling pass
SettleAmp(amps) == SeqMin(amps)

\* the input of the kk-th call of a pass at amplitude a: (a*sin_theta)[kk]
SampleInput(a, kk) == AmpSin(a, kk)

\* fcn_eval @ sin_theta and fcn_eval @ cos_theta
RECURSIVE Dot(_, _, _)
Dot(ev, w, n) == IF n = 0 THEN 0 ELSE Dot(ev, w, n - 1) + ev[n] * w[n - 1]

Projection(a, ev) ==
    LET sin_theta == [kk \in 0..(NumPoints - 1) |-> SinTheta(kk)]
        cos_theta == [kk \in 0..(NumPoints - 1) |-> CosTheta(kk)]
    IN  DFNumeric(a, Dot(ev, sin_theta, Len(ev)), Dot(ev, cos_theta, Len(ev)))

NoOutcome == [status |-> "none", exc |-> "", df |-> <<>>]
\* np.shape(amp): () for a scalar, (n,) for a list of n amplitudes
NpShape(amps, scalar) == IF scalar THEN <<>> ELSE <<Len(amps)>>
\* np.array(df).reshape(shape), returned
Returned(d, shape) == [status |-> "returned", exc |-> "", df |-> d, shape |-> shape]
Raised(e) == [status |-> "raised", exc |-> e, df |-> <<>>]

NoLast == [op |-> "none"]
LogEntry(x, r) == [x |-> x, y |-> r.y, f |-> r.f]

\* no _find_intersection and no describing_function_plot under way
FindIdle ==
    /\ L1a = Origin /\ L1b = Origin /\ L2a = Origin /\ L2b = Origin
    /\ ret = [kind |-> "idle"]

PlotIdle ==
    /\ N_vals = <<>> /\ H_vals = <<>> /\ a_list = <<>> /\ H_omega = <<>>
    /\ refine = FALSE /\ seg_i = 0 /\ seg_j = 0
    /\ intersections = <<>> /\ warnings = 0 /\ trace = <<>>
    /\ plot_pc = "idle"

IdleCall ==
    /\ pc' = "idle" /\ amp' = <<>> /\ amp_scalar' = FALSE
    /\ zero_check' = TRUE /\ try_method' = TRUE
    /\ idx' = 0 /\ k' = 0 /\ fcn_eval' = <<>> /\ df' = <<>> /\ calls' = <<>>
    /\ entry' = NoLast /\ outcome' = NoOutcome /\ consulted' = <<>>

\* construction of the nonlinearity under analysis
Init ==
    /\ \/ \E o \in Offsets : fcn = callable_init(o) /\ warned = FALSE
       \/ \E o \in Offsets : fcn = subclass_init(o) /\ warned = FALSE
       \/ \E ub \in SatBounds, lb \in {<<>>} \cup {<<v>> : v \in SatBounds} :
             /\ fcn = saturation_init(ub, lb).obj
             /\ warned = saturation_init(ub, lb).warned
       \/ \E b \in RelayB, c \in RelayC :
             fcn = relay_hysteresis_init(b, c) /\ warned = FALSE
       \/ \E b \in BacklashB : fcn = backlash_init(b) /\ warned = FALSE
    /\ fresh = TRUE
    /\ last = NoLast
    /\ pc = "idle" /\ amp = <<>> /\ amp_scalar = FALSE
    /\ zero_check = TRUE /\ try_method = TRUE
    /\ idx = 0 /\ k = 0 /\ fcn_eval = <<>> /\ df = <<>> /\ calls = <<>>
    /\ entry = NoLast /\ outcome = NoOutcome /\ consulted = <<>>
    /\ FindIdle /\ PlotIdle

\* a direct call fcn(x) with a scalar
Evaluate(x) ==
    /\ UNCHANGED <<findvars, plotvars>>
    /\ pc = "idle"
    /\ LET r == Call(fcn, x)
       IN  /\ fcn' = r.f
           /\ last' = [op |-> "scalar", x |-> <<x>>, y |-> <<r.y>>, pre |-> fcn]
    /\ fresh' = FALSE
    /\ UNCHANGED <<warned, consulted, pc, amp, amp_scalar, zero_check, try_method, idx, k,
                   fcn_eval, df, calls, entry, outcome>>

\* a direct call fcn(xs) with an array (the relay compares its input with a
\* scalar and takes scalars only)
EvaluateArray(xs) ==
    /\ UNCHANGED <<findvars, plotvars>>
    /\ pc = "idle"
    /\ fcn.kind # "relay_hysteresis"
    /\ LET r == CallArray(fcn, xs)
       IN  /\ fcn' = r.f
           /\ last' = [op |-> "array", x |-> xs, y |-> r.y, pre |-> fcn]
    /\ fresh' = FALSE
    /\ UNCHANGED <<warned, consulted, pc, amp, amp_scalar, zero_check, try_method, idx, k,
                   fcn_eval, df, calls, entry, outcome>>

\* entry of describing_function, analytic path (lines 76-81)
DFAnalytic(amps, scalar, zc, tm) ==
    /\ UNCHANGED <<findvars, plotvars>>
    /\ pc = "idle"
    /\ tm /\ HasMethod(fcn)
    /\ LET r == AnalyticLoop(fcn, amps, <<>>, <<>>)
       IN  /\ outcome' = IF r.raised # "" THEN Raised(r.raised)
                         ELSE Returned(r.df, NpShape(amps, scalar))
           /\ consulted' = r.asked
    /\ pc' = "done"
    /\ amp' = amps /\ amp_scalar' = scalar /\ zero_check' = zc /\ try_method' = tm
    /\ entry' = fcn /\ last' = NoLast
    /\ UNCHANGED <<fcn, warned, fresh, idx, k, fcn_eval, df, calls>>

\* entry of describing_function, numeric path (lines 110-113)
DFNumericStart(amps, scalar, zc, tm) ==
    /\ UNCHANGED <<findvars, plotvars>>
    /\ pc = "idle"
    /\ ~(tm /\ HasMethod(fcn))
    /\ pc' = "settle" /\ k' = 0
    /\ amp' = amps /\ amp_scalar' = scalar /\ zero_check' = zc /\ try_method' = tm
    /\ entry' = fcn /\ last' = NoLast
    /\ UNCHANGED <<fcn, warned, consulted, fresh, idx, fcn_eval, df, calls, outcome>>

\* one call of the settling pass (line 116)
DFSettle ==
    /\ UNCHANGED <<findvars, plotvars>>
    /\ pc = "settle"
    /\ LET x == SampleInput(SettleAmp(amp), k)
           r == Call(fcn, x)
       IN  /\ fcn' = r.f
           /\ calls' = Append(calls, LogEntry(x, r))
    /\ fresh' = FALSE
    /\ IF k + 1 < NumPoints
       THEN k' = k + 1 /\ UNCHANGED <<pc, idx>>
       ELSE k' = 0 /\ pc' = "loop" /\ idx' = 1
    /\ UNCHANGED <<warned, consulted, last, amp, amp_scalar, zero_check, try_method,
                   fcn_eval, df, entry, outcome>>

\* a == 0 (lines 122-127)
DFZero ==
    /\ UNCHANGED <<findvars, plotvars>>
    /\ pc = "loop" /\ idx <= Len(amp) /\ amp[idx] = 0
    /\ IF zero_check
       THEN LET r == Call(fcn, 0)
            IN  /\ fcn' = r.f
                /\ fresh' = FALSE
                /\ calls' = Append(calls, LogEntry(0, r))
                /\ IF r.y # 0
                   THEN /\ pc' = "done"
                        /\ outcome' = Raised("ValueError: function must evaluate to zero at zero")
                        /\ UNCHANGED <<df, idx>>
                   ELSE /\ df' = Append(df, DFConst(1))
                        /\ idx' = idx + 1
                        /\ UNCHANGED <<pc, outcome>>
       ELSE /\ df' = Append(df, DFConst(1))
            /\ idx' = idx + 1
            /\ UNCHANGED <<fcn, fresh, calls, pc, outcome>>
    /\ UNCHANGED <<warned, consulted, last, amp, amp_scalar, zero_check, try_method, k,
                   fcn_eval, entry>>

\* a < 0 (lines 128-129)
DFNegative ==
    /\ UNCHANGED <<findvars, plotvars>>
    /\ pc = "loop" /\ idx <= Len(amp) /\ amp[idx] < 0
    /\ pc' = "done"
    /\ outcome' = Raised("ValueError: cannot evaluate describing function for amp < 0")
    /\ UNCHANGED <<fcn, warned, consulted, fresh, last, amp, amp_scalar, zero_check,
                   try_method, idx, k, fcn_eval, df, calls, entry>>

\* a > 0: one call of the pass over a*sin_theta (line 135) and, after the
\* last, the projections (lines 132, 138-141)
DFEval ==
    /\ UNCHANGED <<findvars, plotvars>>
    /\ pc = "loop" /\ idx <= Len(amp) /\ amp[idx] > 0
    /\ LET x == SampleInput(amp[idx], k)
           r == Call(fcn, x)
           ev == Append(fcn_eval, r.y)
       IN  /\ fcn' = r.f
           /\ fresh' = FALSE
           /\ calls' = Append(calls, LogEntry(x, r))
           /\ IF k + 1 < NumPoints
              THEN /\ k' = k + 1 /\ fcn_eval' = ev
                   /\ UNCHANGED <<idx, df>>
              ELSE /\ k' = 0 /\ fcn_eval' = <<>>
                   /\ df' = Append(df, Projection(amp[idx], ev))
                   /\ idx' = idx + 1
    /\ UNCHANGED <<warned, consulted, last, pc, amp, amp_scalar, zero_check, try_method,
                   entry, outcome>>

\* return np.array(df).reshape(np.shape(amp)) (line 144)
DFReturn ==
    /\ UNCHANGED <<findvars, plotvars>>
    /\ pc = "loop" /\ idx > Len(amp)
    /\ pc' = "done"
    /\ outcome' = Returned(df, NpShape(amp, amp_scalar))
    /\ UNCHANGED <<fcn, warned, consulted, fresh, last, amp, amp_scalar, zero_check,
                   try_method, idx, k, fcn_eval, df, calls, entry>>

\* the caller has the result (or the exception); the object lives on
DFDone ==
    /\ UNCHANGED <<findvars, plotvars>>
    /\ pc = "done"
    /\ IdleCall
    /\ UNCHANGED <<fcn, warned, fresh, last>>

DFAnalyticCall ==
    \E amps \in SeqsOf(AmpValues, 1, MaxAmps), scalar \in BOOLEAN,
       zc \in BOOLEAN, tm \in BOOLEAN :
        (scalar => Len(amps) = 1) /\ DFAnalytic(amps, scalar, zc, tm)

DFNumericCall ==
    \E amps \in SeqsOf(AmpValues, 1, MaxAmps), scalar \in BOOLEAN,
       zc \in BOOLEAN, tm \in BOOLEAN :
        (scalar => Len(amps) = 1) /\ DFNumericStart(amps, scalar, zc, tm)

EvaluateCall == \E x \in Inputs : Evaluate(x)

EvaluateArrayCall == \E xs \in SeqsOf(Inputs, 1, MaxArray) : EvaluateArray(xs)

Next ==
    \/ EvaluateCall
    \/ EvaluateArrayCall
    \/ DFAnalyticCall
    \/ DFNumericCall
    \/ DFSettle
    \/ DFZero
    \/ DFNegative
    \/ DFEval
    \/ DFReturn
    \/ DFDone

Spec == Init /\ [][Next]_vars

(***************************************************************************)
(* Properties of the nonlinearities and of describing_function (Spec).     *)
(***************************************************************************)

\* the object before the p-th call logged by describing_function
PreOf(p) == IF p = 1 THEN entry ELSE calls[p - 1].f

\* the relay's contract for one call: input x in state pre gave y and post
RelayCallOK(pre, x, y, post) ==
    /\ (x > pre.c => y = pre.b /\ post.branch = 1)
    /\ (x < -pre.c => y = -pre.b /\ post.branch = -1)
    /\ (-pre.c <= x /\ x <= pre.c =>
            /\ post.branch = pre.branch
            /\ y = IF pre.branch = 1 THEN pre.b ELSE -pre.b)
    /\ post.branch \in {-1, 1}
    /\ y = post.branch * pre.b
    /\ post.b = pre.b /\ post.c = pre.c

\* C1: a fresh relay (c >= 0) is on the lower branch; every call with x > c
\* gives +b and the upper branch, with x < -c gives -b and the lower branch,
\* and inside [-c, c] keeps the branch and gives the branch's output; the
\* branch is always -1 or +1 and every output is branch*b.
C1_RelayContract ==
    (fcn.kind = "relay_hysteresis" /\ fcn.c >= 0) =>
        /\ fresh => fcn.branch = -1
        /\ fcn.branch \in {-1, 1}
        /\ last.op = "scalar" => RelayCallOK(last.pre, last.x[1], last.y[1], fcn)
        /\ \A p \in 1..Len(calls) :
              RelayCallOK(PreOf(p), calls[p].x, calls[p].y, calls[p].f)

\* C1 witness: a relay on the upper branch was called inside the band
\* (strictly between the levels) and kept +b
C1_Witness ==
    /\ fcn.kind = "relay_hysteresis" /\ fcn.c > 0 /\ fcn.b > 0
    /\ last.op = "scalar"
    /\ last.pre.branch = 1
    /\ -fcn.c < last.x[1] /\ last.x[1] < fcn.c
    /\ last.y[1] = fcn.b /\ fcn.branch = 1

\* the backlash's contract for one element: previous center, input, output
BacklashElemOK(prev, b, x, y) ==
    /\ (2 * x > 2 * prev + b => 2 * y = 2 * x - b)
    /\ (2 * x < 2 * prev - b => 2 * y = 2 * x + b)
    /\ (2 * prev - b <= 2 * x /\ 2 * x <= 2 * prev + b => y = prev)

\* C2: the backlash's center starts at 0; a call processes its elements in
\* order, each moving the center to x - b/2, to x + b/2 or not at all, the
\* k-th from the state left by the (k-1)-th; the k-th output is the center
\* after the k-th step, and n inputs give n outputs.
C2_BacklashContract ==
    fcn.kind = "backlash" =>
        /\ fresh => fcn.center = 0
        /\ last.op # "none" =>
              /\ Len(last.y) = Len(last.x)
              /\ last.op = "scalar" => Len(last.x) = 1
              /\ \A i \in 1..Len(last.x) :
                    BacklashElemOK(IF i = 1 THEN last.pre.center ELSE last.y[i - 1],
                                   fcn.b, last.x[i], last.y[i])
              /\ fcn.center = last.y[Len(last.y)]
        /\ \A p \in 1..Len(calls) :
              /\ BacklashElemOK(PreOf(p).center, fcn.b, calls[p].x, calls[p].y)
              /\ calls[p].f.center = calls[p].y

\* C2 witness: an array call whose first element pushed the center up and
\* whose second pulled it down again
C2_Witness ==
    /\ fcn.kind = "backlash" /\ fcn.b > 0
    /\ last.op = "array" /\ Len(last.x) >= 2
    /\ 2 * last.y[1] = 2 * last.x[1] - fcn.b /\ last.y[1] # last.pre.center
    /\ 2 * last.y[2] = 2 * last.x[2] + fcn.b /\ last.y[2] # last.y[1]

\* C3 (as claimed): describing_function(fcn, 0) with zero_check and the
\* default try_method raises when fcn(0) is not zero and returns 1.0 when
\* fcn(0) is zero.
C3_ZeroAmplitude ==
    (pc = "done" /\ amp = <<0>> /\ zero_check /\ try_method) =>
        IF Call(entry, 0).y # 0
        THEN outcome.status = "raised"
        ELSE outcome.status = "returned" /\ outcome.df = <<DFConst(1)>>

\* C4 (as claimed): describing_function raises whenever a requested
\* amplitude is negative, and returns nothing.
C4_NegativeAmplitude ==
    (pc = "done" /\ \E i \in 1..Len(amp) : amp[i] < 0) =>
        outcome.status = "raised"

\* C9 (as claimed): a constructed saturation has lb = -ub, and only the
\* construction from asymmetric bounds warns.
C9_SaturationSymmetric ==
    fcn.kind = "saturation" => fcn.lb = -fcn.ub

\* the inputs of one pass at amplitude a, in increasing angle
Wave(a) == [i \in 1..NumPoints |-> AmpSin(a, i - 1)]

\* the calls describing_function makes for one amplitude
Block(a, zc) == IF a > 0 THEN Wave(a) ELSE IF a = 0 /\ zc THEN <<0>> ELSE <<>>

RECURSIVE Blocks(_, _, _)
Blocks(amps, zc, n) ==
    IF n = 0 THEN <<>> ELSE Blocks(amps, zc, n - 1) \o Block(amps[n], zc)

\* settling pass, then the first n amplitudes
ExpectedInputs(amps, zc, n) == Wave(SeqMin(amps)) \o Blocks(amps, zc, n)

CallInputs == [p \in 1..Len(calls) |-> calls[p].x]

IsPrefix(s, t) == Len(s) <= Len(t) /\ \A i \in 1..Len(s) : s[i] = t[i]

MethodValued(f, amps) == \A i \in 1..Len(amps) : Method(f, amps[i]).raised = ""

DeadBandOK(prev, b, x, c) ==
    /\ 2 * Abs(x - c) <= b
    /\ c # prev => 2 * Abs(x - prev) > b
    /\ 2 * Abs(x - prev) > b =>
          /\ 2 * Abs(x - c) = b
          /\ 2 * Abs(c - prev) = 2 * Abs(x - prev) - b
          /\ (x > prev) = (c > prev)

\* evaluating x again on the object f gives y again and leaves f as it is
SameAgain(f, x, y) == Call(f, x) = [y |-> y, f |-> f]

\* C12: for a backlash of width b >= 0 and any sequence of inputs, right
\* after evaluating x the center satisfies |x - center| <= b/2; the center
\* moves only for an input strictly outside [center - b/2, center + b/2],
\* and then by the smallest amount that puts the input on the nearer edge;
\* evaluating the same input a second time in a row returns the same
\* output and does not change the state.
C12_BacklashDeadBand ==
    (fcn.kind = "backlash" /\ fcn.b >= 0) =>
        /\ last.op # "none" =>
              /\ \A i \in 1..Len(last.x) :
                    /\ DeadBandOK(IF i = 1 THEN last.pre.center ELSE last.y[i - 1],
                                  fcn.b, last.x[i], last.y[i])
                    /\ (i > 1 /\ last.x[i] = last.x[i - 1]) => last.y[i] = last.y[i - 1]
              /\ SameAgain(fcn, last.x[Len(last.x)], last.y[Len(last.y)])
        /\ \A p \in 1..Len(calls) :
              /\ DeadBandOK(PreOf(p).center, fcn.b, calls[p].x, calls[p].y)
              /\ SameAgain(calls[p].f, calls[p].x, calls[p].y)
              /\ (p > 1 /\ calls[p].x = calls[p - 1].x) =>
                    calls[p].y = calls[p - 1].y /\ calls[p].f = calls[p - 1].f

\* C12 witness: an array call that gives the same input twice; the first
\* moved the center, the second left it there
C12_Witness ==
    /\ fcn.kind = "backlash" /\ fcn.b > 0
    /\ last.op = "array" /\ Len(last.x) = 2
    /\ last.x[1] = last.x[2]
    /\ last.pre.center # 0
    /\ last.y[1] # last.pre.center
    /\ 2 * Abs(last.x[1] - last.y[1]) = fcn.b
    /\ last.y[2] = last.y[1] /\ fcn.center = last.y[2]

(***************************************************************************)
(* _find_intersection(L1a, L1b, L2a, L2b)                                  *)
(***************************************************************************)

\* abs(detM) < 1e-8: the determinant of end points on the integer grid is
\* an integer, and below the tolerance only when it is zero
BelowTolerance(detM) == Abs(detM) < 1

NoIntersection == [kind |-> "None"]
Intersection(s1, s2) == [kind |-> "pair", s1 |-> s1, s2 |-> s2]
AssertionFailed == [kind |-> "AssertionError"]

\* the point A + s*T, as two rationals
PointAt(A, s, T) == <<RAdd(RInt(A.real), RMul(s, RInt(T.real))),
                      RAdd(RInt(A.imag), RMul(s, RInt(T.imag)))>>

\* the second parameter computed from the first segment's tangent only
find_intersection_s2_swapped(p1a, p1b, p2a, p2b) ==
    LET L1t == CSub(p1b, p1a)
        L2t == CSub(p2b, p2a)
        b == CSub(p1a, p2a)
        detM == L1t.imag * L2t.real - L1t.real * L2t.imag
        s1 == Rat(L2t.imag * b.real - L2t.real * b.imag, detM)
        s2 == Rat(L1t.real * b.imag - L1t.imag * b.real, detM)
    IN  IF BelowTolerance(detM) THEN NoIntersection
        ELSE IF RLess(s1, RInt(0)) \/ RLess(RInt(1), s1) THEN NoIntersection
        ELSE IF RLess(s2, RInt(0)) \/ RLess(RInt(1), s2) THEN NoIntersection
        ELSE Intersection(s1, s2)

\* _find_intersection, lines 226-250
find_intersection(p1a, p1b, p2a, p2b) ==
    LET L1t == CSub(p1b, p1a)
        L2t == CSub(p2b, p2a)
        b == CSub(p1a, p2a)
        detM == L1t.imag * L2t.real - L1t.real * L2t.imag
        s1 == Rat(L2t.imag * b.real - L2t.real * b.imag, detM)
        s2 == Rat(L1t.imag * b.real - L1t.real * b.imag, detM)
    IN  IF BelowTolerance(detM) THEN NoIntersection
        ELSE IF RLess(s1, RInt(0)) \/ RLess(RInt(1), s1) THEN NoIntersection
        ELSE IF RLess(s2, RInt(0)) \/ RLess(RInt(1), s2) THEN NoIntersection
        ELSE IF PointAt(p1a, s1, L1t) # PointAt(p2a, s2, L2t) THEN AssertionFailed
        ELSE Intersection(s1, s2)

GridPoints == {Cplx(x, y) : x \in 0..GridMax, y \in 0..GridMax}

\* the four end points of a call of _find_intersection
InitFind ==
    /\ L1a \in GridPoints /\ L1b \in GridPoints
    /\ L2a \in GridPoints /\ L2b \in GridPoints
    /\ ret = [kind |-> "idle"]
    /\ fcn = callable_init(0) /\ warned = FALSE /\ fresh = TRUE /\ last = NoLast
    /\ pc = "idle" /\ amp = <<>> /\ amp_scalar = FALSE
    /\ zero_check = TRUE /\ try_method = TRUE
    /\ idx = 0 /\ k = 0 /\ fcn_eval = <<>> /\ df = <<>> /\ calls = <<>>
    /\ entry = NoLast /\ outcome = NoOutcome /\ consulted = <<>>
    /\ PlotIdle

FindIntersection ==
    /\ ret.kind = "idle"
    /\ ret' = find_intersection(L1a, L1b, L2a, L2b)
    /\ UNCHANGED <<L1a, L1b, L2a, L2b, nlvars, plotvars>>

NextFind == FindIntersection

SpecFind == InitFind /\ [][NextFind]_vars

(***************************************************************************)
(* describing_function_plot(H, F, a, omega, refine), lines 188-223.  The   *)
(* two curves are its inputs here: H_vals and H_omega come from            *)
(* nyquist_plot and N_vals = -1/df from describing_function(F, a).  The    *)
(* minimizer is scipy's: a run either succeeds with some point res.x or    *)
(* reports failure.                                                        *)
(***************************************************************************)

\* sample points of the -1/N curve and of the plant curve
NPoints == {Cplx(0, 0), Cplx(1, 1), Cplx(0, 2), Cplx(2, 2), Cplx(0, 1)}
HPoints == {Cplx(0, 2), Cplx(2, 0), Cplx(1, 0), Cplx(2, 2)}
\* curves of three samples: two segments each
NCurves == [1..3 -> NPoints]
HCurves == [1..3 -> HPoints]
\* the amplitudes a and the frequencies H_omega of the samples (half units)
Amplitudes == <<2, 4, 6>>
Frequencies == <<1, 4, 9>>
\* how far from the guess the minimizer's point may lie
Refinements == {Rat(1, 8)}

\* amplitude and frequency interpolated with the wrong parameters
CoarseGuess_swapped(r, ii, jj) ==
    <<RAdd(RMul(RSub(RInt(1), r.s2), RInt(a_list[ii])), RMul(r.s2, RInt(a_list[ii + 1]))),
      RAdd(RMul(RSub(RInt(1), r.s1), RInt(H_omega[jj])), RMul(r.s1, RInt(H_omega[jj + 1])))>>

\* lines 197-198: a_guess and omega_guess
CoarseGuess(r, ii, jj) ==
    <<RAdd(RMul(RSub(RInt(1), r.s1), RInt(a_list[ii])), RMul(r.s1, RInt(a_list[ii + 1]))),
      RAdd(RMul(RSub(RInt(1), r.s2), RInt(H_omega[jj])), RMul(r.s2, RInt(H_omega[jj + 1])))>>

\* the minimizer's point always taken, whatever res.success says
FinalEstimate_always(success, guess, x) == x

\* lines 201-212: a_final, omega_final after a run of the minimizer
FinalEstimate(success, guess, x) == IF ~success THEN guess ELSE x

\* the loops taken the other way round: j outside, i inside
NextPair_transposed(ii, jj) ==
    IF ii < Len(N_vals) - 1 THEN <<ii + 1, jj>> ELSE <<1, jj + 1>>

\* lines 188-189: the pair after (ii, jj) of  for i ...: for j ...:
NextPair(ii, jj) ==
    IF jj < Len(H_vals) - 1 THEN <<ii, jj + 1>> ELSE <<ii + 1, 1>>

\* the loops are over
LoopsDone == seg_i > Len(N_vals) - 1 \/ seg_j > Len(H_vals) - 1

\* intersect of the current pair (lines 190-191)
Intersect == find_intersection(N_vals[seg_i], N_vals[seg_i + 1],
                               H_vals[seg_j], H_vals[seg_j + 1])

Advance ==
    /\ seg_i' = NextPair(seg_i, seg_j)[1]
    /\ seg_j' = NextPair(seg_i, seg_j)[2]

InitPlot ==
    /\ N_vals \in NCurves /\ H_vals \in HCurves
    /\ a_list = Amplitudes /\ H_omega = Frequencies
    /\ refine \in BOOLEAN
    /\ seg_i = 1 /\ seg_j = 1
    /\ intersections = <<>> /\ warnings = 0 /\ trace = <<>>
    /\ plot_pc = "scan"
    /\ fcn = callable_init(0) /\ warned = FALSE /\ fresh = TRUE /\ last = NoLast
    /\ pc = "idle" /\ amp = <<>> /\ amp_scalar = FALSE
    /\ zero_check = TRUE /\ try_method = TRUE
    /\ idx = 0 /\ k = 0 /\ fcn_eval = <<>> /\ df = <<>> /\ calls = <<>>
    /\ entry = NoLast /\ outcome = NoOutcome /\ consulted = <<>>
    /\ FindIdle

\* lines 192-193: no intersection on this pair (an AssertionError of
\* _find_intersection leaves the function)
PlotSkip ==
    /\ plot_pc = "scan" /\ ~LoopsDone
    /\ Intersect.kind # "pair"
    /\ IF Intersect.kind = "AssertionError"
       THEN plot_pc' = "raised" /\ UNCHANGED <<seg_i, seg_j>>
       ELSE Advance /\ UNCHANGED plot_pc
    /\ UNCHANGED <<N_vals, H_vals, a_list, H_omega, refine, intersections,
                   warnings, trace, nlvars, findvars>>

\* lines 196-201, 220: refine is off, the guess is the estimate
PlotCoarse ==
    /\ plot_pc = "scan" /\ ~LoopsDone
    /\ Intersect.kind = "pair"
    /\ ~refine
    /\ LET g == CoarseGuess(Intersect, seg_i, seg_j)
       IN  /\ intersections' = Append(intersections, g)
           /\ trace' = Append(trace, [i |-> seg_i, j |-> seg_j, guess |-> g,
                                      refined |-> FALSE, success |-> FALSE, x |-> g])
    /\ Advance
    /\ UNCHANGED <<N_vals, H_vals, a_list, H_omega, refine, warnings, plot_pc,
                   nlvars, findvars>>

\* lines 202-212, 220: the minimizer succeeds with res.x
PlotRefined ==
    /\ plot_pc = "scan" /\ ~LoopsDone
    /\ Intersect.kind = "pair"
    /\ refine
    /\ \E d \in Refinements :
          LET g == CoarseGuess(Intersect, seg_i, seg_j)
              x == <<RAdd(g[1], d), RSub(g[2], d)>>
          IN  /\ intersections' = Append(intersections, FinalEstimate(TRUE, g, x))
              /\ trace' = Append(trace, [i |-> seg_i, j |-> seg_j, guess |-> g,
                                         refined |-> TRUE, success |-> TRUE, x |-> x])
    /\ Advance
    /\ UNCHANGED <<N_vals, H_vals, a_list, H_omega, refine, warnings, plot_pc,
                   nlvars, findvars>>

\* lines 202-210, 220: the minimizer reports failure: warn, keep the guess
PlotRefineFailed ==
    /\ plot_pc = "scan" /\ ~LoopsDone
    /\ Intersect.kind = "pair"
    /\ refine
    /\ \E d \in Refinements :
          LET g == CoarseGuess(Intersect, seg_i, seg_j)
              x == <<RAdd(g[1], d), RSub(g[2], d)>>
          IN  /\ intersections' = Append(intersections, FinalEstimate(FALSE, g, x))
              /\ trace' = Append(trace, [i |-> seg_i, j |-> seg_j, guess |-> g,
                                         refined |-> TRUE, success |-> FALSE, x |-> x])
    /\ warnings' = warnings + 1
    /\ Advance
    /\ UNCHANGED <<N_vals, H_vals, a_list, H_omega, refine, plot_pc,
                   nlvars, findvars>>

\* line 222: return intersections
PlotReturn ==
    /\ plot_pc = "scan" /\ LoopsDone
    /\ plot_pc' = "done"
    /\ UNCHANGED <<N_vals, H_vals, a_list, H_omega, refine, seg_i, seg_j,
                   intersections, warnings, trace, nlvars, findvars>>

NextPlot ==
    \/ PlotSkip
    \/ PlotCoarse
    \/ PlotRefined
    \/ PlotRefineFailed
    \/ PlotReturn

SpecPlot == InitPlot /\ [][NextPlot]_vars

(***************************************************************************)
(* Properties of _find_intersection (SpecFind) and of                      *)
(* describing_function_plot (SpecPlot).  The geometry below is stated      *)
(* without the code's formulas: a common point of two non-parallel         *)
(* segments A-B and C-D has parameters n1/D and n2/D with D the absolute   *)
(* determinant, so it is found by looking through 0..D.                    *)
(***************************************************************************)
Cross2(u, v) == u.real * v.imag - u.imag * v.real
Dot2(u, v) == u.real * v.real + u.imag * v.imag

\* the pairs <<n1, n2>> with A + (n1/D)(B - A) = C + (n2/D)(D' - C), both in [0, 1]
Solutions(A, B, C, Dd) ==
    LET D == Abs(Cross2(CSub(B, A), CSub(Dd, C)))
    IN  {s \in (0..D) \X (0..D) :
            /\ D * A.real + s[1] * (B.real - A.real) = D * C.real + s[2] * (Dd.real - C.real)
            /\ D * A.imag + s[1] * (B.imag - A.imag) = D * C.imag + s[2] * (Dd.imag - C.imag)}

Parallel(A, B, C, Dd) == Cross2(CSub(B, A), CSub(Dd, C)) = 0

\* the grid point P lies on the segment A-B
OnSegment(P, A, B) ==
    IF A = B THEN P = A
    ELSE /\ Cross2(CSub(B, A), CSub(P, A)) = 0
         /\ 0 <= Dot2(CSub(P, A), CSub(B, A))
         /\ Dot2(CSub(P, A), CSub(B, A)) <= Dot2(CSub(B, A), CSub(B, A))

\* the end points that parallel segments A-B and C-D have in common
SharedEnds(A, B, C, Dd) ==
    {P \in {A, B, C, Dd} : OnSegment(P, A, B) /\ OnSegment(P, C, Dd)}

\* the points two segments have in common, as pairs of rationals (of
\* parallel segments that overlap: the end points of the overlap)
MeetPoints(A, B, C, Dd) ==
    IF Parallel(A, B, C, Dd)
    THEN {<<RInt(P.real), RInt(P.imag)>> : P \in SharedEnds(A, B, C, Dd)}
    ELSE LET D == Abs(Cross2(CSub(B, A), CSub(Dd, C)))
         IN  {<<Rat(D * A.real + s[1] * (B.real - A.real), D),
                Rat(D * A.imag + s[1] * (B.imag - A.imag), D)>> :
                    s \in Solutions(A, B, C, Dd)}

\* C5: _find_intersection returns a pair exactly when the segments are not
\* parallel and the solution of L1a + s1*(L1b-L1a) = L2a + s2*(L2b-L2a) has
\* both parameters in [0, 1]; the pair is that solution; otherwise it
\* returns None, and it never raises.
C5_FindIntersection ==
    ret.kind # "idle" =>
        LET D == Abs(Cross2(CSub(L1b, L1a), CSub(L2b, L2a)))
            sols == Solutions(L1a, L1b, L2a, L2b)
        IN  /\ ret.kind \in {"pair", "None"}
            /\ ret.kind = "pair" <=> (~Parallel(L1a, L1b, L2a, L2b) /\ sols # {})
            /\ ret.kind = "pair" =>
                  /\ \A s \in sols : ret.s1 = Rat(s[1], D) /\ ret.s2 = Rat(s[2], D)
                  /\ ~RLess(ret.s1, RInt(0)) /\ ~RLess(RInt(1), ret.s1)
                  /\ ~RLess(ret.s2, RInt(0)) /\ ~RLess(RInt(1), ret.s2)

\* C5 witness: a crossing a third of the way along one segment
C5_Witness ==
    /\ ret.kind = "pair"
    /\ ret.s1[2] = 3 /\ ret.s2[2] = 3

SegsN == 1..(Len(N_vals) - 1)
SegsH == 1..(Len(H_vals) - 1)

\* the segment pairs on which _find_intersection reports an intersection
Reporting ==
    {q \in SegsN \X SegsH :
        find_intersection(N_vals[q[1]], N_vals[q[1] + 1],
                          H_vals[q[2]], H_vals[q[2] + 1]).kind = "pair"}

LexLess(q, r) == q[1] < r[1] \/ (q[1] = r[1] /\ q[2] < r[2])

TracePairs == [n \in 1..Len(trace) |-> <<trace[n].i, trace[n].j>>]

C8_RefineFallback ==
    (plot_pc # "idle" /\ refine) =>
        /\ plot_pc # "raised"
        /\ Len(intersections) = Len(trace)
        /\ \A n \in 1..Len(trace) :
              /\ trace[n].refined
              /\ trace[n].success => intersections[n] = trace[n].x
              /\ ~trace[n].success => intersections[n] = trace[n].guess
        /\ warnings = Cardinality({n \in 1..Len(trace) : ~trace[n].success})
        /\ Len(trace) = Cardinality({q \in Reporting : LexLess(q, <<seg_i, seg_j>>)})
        /\ plot_pc = "done" => Len(intersections) = Cardinality(Reporting)

\* C8 witness: the minimizer failed on one intersection and succeeded, with
\* a point other than the guess, on a later one
C8_Witness ==
    /\ plot_pc = "done" /\ refine
    /\ \E n \in 1..Len(trace), m \in 1..Len(trace) :
          /\ n < m
          /\ ~trace[n].success /\ intersections[n] = trace[n].guess
          /\ trace[m].success /\ intersections[m] # trace[m].guess

\* the points the two curves have in common
CommonPoints ==
    UNION {MeetPoints(N_vals[q[1]], N_vals[q[1] + 1], H_vals[q[2]], H_vals[q[2] + 1]) :
              q \in SegsN \X SegsH}

\* the segment pairs that have a point in common
Touching ==
    {q \in SegsN \X SegsH :
        MeetPoints(N_vals[q[1]], N_vals[q[1] + 1], H_vals[q[2]], H_vals[q[2] + 1]) # {}}

\* the curves cross at exactly one point: they have one point in common,
\* and no parallel segments of the two curves touch
CrossOnce ==
    /\ Cardinality(CommonPoints) = 1
    /\ \A q \in Touching :
          ~Parallel(N_vals[q[1]], N_vals[q[1] + 1], H_vals[q[2]], H_vals[q[2] + 1])

\* a curve that does not meet itself: consecutive segments share their
\* vertex only, other segments nothing
SimpleCurve(c) ==
    \A m \in 1..(Len(c) - 1), n \in 1..(Len(c) - 1) :
        m < n =>
            /\ ~Parallel(c[m], c[m + 1], c[n], c[n + 1])
            /\ MeetPoints(c[m], c[m + 1], c[n], c[n + 1])
                  \subseteq (IF n = m + 1 THEN {<<RInt(c[n].real), RInt(c[n].imag)>>} ELSE {})

\* amplitude and frequency interpolated at the common point of the pair q
InterpolatedAt(q) ==
    LET A == N_vals[q[1]]
        B == N_vals[q[1] + 1]
        C == H_vals[q[2]]
        Dd == H_vals[q[2] + 1]
        D == Abs(Cross2(CSub(B, A), CSub(Dd, C)))
    IN  {<<Rat(D * a_list[q[1]] + s[1] * (a_list[q[1] + 1] - a_list[q[1]]), D),
           Rat(D * H_omega[q[2]] + s[2] * (H_omega[q[2] + 1] - H_omega[q[2]]), D)>> :
               s \in Solutions(A, B, C, Dd)}

====
